---- MODULE Spec2Model ----
(***************************************************************************)
(* Stock reconciliation engine (src/utils/stockManager.ts, and its         *)
(* local-storage predecessor) and party ledger (CustomerManager,           *)
(* SupplierManager, PartyManager) of vignaharta-billing.                   *)
(*                                                                         *)
(* Numbers.  Stock levels are JavaScript numbers holding bags; every       *)
(* quantity the engine adds or subtracts is kg/30 with kg a whole number   *)
(* (the forms read quantities with parseInt).  The model keeps a stock     *)
(* level as the exact rational it stands for, written as a whole number    *)
(* of 1/UnitsPerBag bags.  Money amounts are whole currency units.         *)
(* Text.  Names and phone numbers are sequences of one-character strings,  *)
(* so that toLowerCase and the template-string key are computed.           *)
(***************************************************************************)
EXTENDS Integers, Sequences, FiniteSets, TLC

VARIABLES
  items,              \* backend item collection (itemsApi), in getAll order
  stockTransactions,  \* backend stock-transaction log (stockTransactionsApi)
  processedInvoices,  \* StockManager.processedInvoices
  lastCall,           \* the StockManager call that produced this state
  pre,                \* items / log / processed set as they were before lastCall
  nCalls,             \* number of StockManager calls made so far
  localItems,         \* Storage ITEMS of the local-storage StockManager, fed the same calls
  outcome,            \* how lastCall ended in each variant, and the request that failed
  clock,              \* Date.now(), in ms
  issuedIds,          \* the transaction ids generated so far, with the time of each
  documents,          \* stored billing documents of one direction (or Null)
  payments,           \* stored payments of the same direction (or Null)
  ledgerOut,          \* result of the last ledger query
  bagStock,           \* openingStock of the product "Sack" as the double that is stored (or Null)
  kgBooked,           \* the whole kilograms entered for that product, added up exactly
  kgReported,         \* the last getItemStock call: product name, result, and the
                      \* number of stock changes that came before it
  nConversions,       \* number of stock changes made to that product
  running,            \* the updateStockOnSale calls in flight: position and locals of each
  itemUpdates,        \* the itemsApi.update requests the backend has applied, in order
  storedPayments,     \* Storage SALES_PAYMENTS: the payments-in list (or Null)
  paymentsIn,         \* the paymentsIn state of the payment-in screen
  paymentScreen,      \* whether the payment-in screen is mounted, and its last operation
  salesInvoices,      \* Storage SALES_INVOICES: the sale invoices (or Null)
  saleInvoices,       \* the saleInvoices state of the sales screen
  salesScreen,        \* whether the sales screen is mounted, and the last operation
  invoiceTime,        \* Date.now() when the next invoice is created
  deletedInvoices     \* the ids of the invoices deleteTransaction has removed

stockVars == <<items, stockTransactions, processedInvoices, lastCall, pre, nCalls, localItems,
               outcome>>
ledgerVars == <<documents, payments, ledgerOut>>
idVars == <<clock, issuedIds>>
unitVars == <<bagStock, kgBooked, kgReported, nConversions>>
\* the variables of the sections that follow the ledger
raceVars == <<running, itemUpdates>>
payVars == <<storedPayments, paymentsIn, paymentScreen>>
invoiceVars == <<salesInvoices, saleInvoices, salesScreen, invoiceTime, deletedInvoices>>
extVars == <<unitVars, raceVars, payVars, invoiceVars>>
vars == <<items, stockTransactions, processedInvoices, lastCall, pre, nCalls, localItems,
          outcome, clock, issuedIds, documents, payments, ledgerOut,
          bagStock, kgBooked, kgReported, nConversions, running, itemUpdates,
          storedPayments, paymentsIn, paymentScreen,
          salesInvoices, saleInvoices, salesScreen, invoiceTime, deletedInvoices>>

-----------------------------------------------------------------------------
(* Bounds and input sets *)

MaxCalls == 3

KgPerBag == 30

UnitsPerBag == KgPerBag

Undefined == "<undefined>"

\* A storage key holds a JSON list or nothing; Storage.getObject gives null for nothing
Null == [present |-> FALSE, value |-> <<>>]

Stored(list) == [present |-> TRUE, value |-> list]

InvoiceIds == {"INV-1", "INV-2"}

InvoiceArgs == InvoiceIds \cup {Undefined}

SaleItem(n, q) == [itemName |-> n, quantity |-> q]

ItemLists ==
  { <<>>,
    <<SaleItem("Sack", 300)>>,
    <<SaleItem("sack", 60), SaleItem("Sack", 45)>>,
    <<SaleItem("Sack", 45), SaleItem("Sack", 60)>>,
    <<SaleItem("Bardana", 30)>> }

Item(id, n, s, u) == [id |-> id, productName |-> n, openingStock |-> s, isUniversal |-> u]

InitialItems ==
  { <<>>,
    <<Item("i1", "Sack", 10 * UnitsPerBag, FALSE)>>,
    <<Item("i1", "Sack", 10 * UnitsPerBag, FALSE), Item("i2", "Bardana", 2 * UnitsPerBag, TRUE)>> }

-----------------------------------------------------------------------------
(* Helpers standing for JavaScript built-ins *)

Max(a, b) == IF a >= b THEN a ELSE b

Truthy(id) == id # Undefined

RECURSIVE SumQuantity(_)
SumQuantity(lines) ==
  IF lines = <<>> THEN 0 ELSE lines[1].quantity + SumQuantity(Tail(lines))

\* Array.prototype.find by product name: index of the first match, 0 if none
FindByNameOrFirst(list, name) ==
  LET hits == {i \in DOMAIN list : list[i].productName = name}
  IN IF hits = {} THEN (IF list = <<>> THEN 0 ELSE 1)
     ELSE CHOOSE i \in hits : \A j \in hits : i <= j

FindByName(list, name) ==
  LET hits == {i \in DOMAIN list : list[i].productName = name}
  IN IF hits = {} THEN 0 ELSE CHOOSE i \in hits : \A j \in hits : i <= j

FindBardana(list) ==
  LET hits == {i \in DOMAIN list : list[i].isUniversal /\ list[i].productName = "Bardana"}
  IN IF hits = {} THEN 0 ELSE CHOOSE i \in hits : \A j \in hits : i <= j

\* kg / 30, in stock units
KgToBags(kg) == (kg * UnitsPerBag) \div KgPerBag

\* itemsApi.update(id, data): the stored item with that id is replaced
itemsApiUpdate(store, id, data) ==
  [i \in DOMAIN store |-> IF store[i].id = id THEN data ELSE store[i]]

StockTxInKg(item, type, kg, prev, new, ref) ==
  [itemId |-> item.id, itemName |-> item.productName, transactionType |-> type,
   quantity |-> kg, quantityInBags |-> kg * UnitsPerBag,
   previousStock |-> prev, newStock |-> new, referenceId |-> ref]

StockTx(item, type, kg, prev, new, ref) ==
  [itemId |-> item.id, itemName |-> item.productName, transactionType |-> type,
   quantity |-> kg, quantityInBags |-> KgToBags(kg),
   previousStock |-> prev, newStock |-> new, referenceId |-> ref]

World(it, log, proc) == [items |-> it, log |-> log, processed |-> proc]

\* Math.max(0, currentStockBags - (soldItem.quantity / 30))
SaleNewStockUnclamped(currentStockBags, kg) == currentStockBags - KgToBags(kg)

SaleNewStock(currentStockBags, kg) == Max(0, currentStockBags - KgToBags(kg))

\* Math.max(0, bardanaItem.openingStock - bardanaReductionBags)
BardanaNewStockUnclamped(openingStock, bardanaReductionBags) == openingStock - bardanaReductionBags

BardanaNewStock(openingStock, bardanaReductionBags) == Max(0, openingStock - bardanaReductionBags)

-----------------------------------------------------------------------------
(* StockManager.updateStockOnSale *)

RECURSIVE SaleLoop(_, _, _, _)
SaleLoop(w, snapshot, soldItems, invoiceId) ==
  IF soldItems = <<>> THEN w
  ELSE
    LET soldItem == soldItems[1]
        k == FindByName(snapshot, soldItem.itemName)
    IN IF k = 0 THEN SaleLoop(w, snapshot, Tail(soldItems), invoiceId)
       ELSE
         LET item == snapshot[k]
             currentStockBags == item.openingStock
             newStockBags == SaleNewStock(currentStockBags, soldItem.quantity)
             tx == StockTx(item, "sale", soldItem.quantity, currentStockBags, newStockBags, invoiceId)
             w2 == World(itemsApiUpdate(w.items, item.id, [item EXCEPT !.openingStock = newStockBags]),
                         Append(w.log, tx), w.processed)
         IN SaleLoop(w2, snapshot, Tail(soldItems), invoiceId)

SaleBardana(w, snapshot, soldItems, invoiceId) ==
  LET b == FindBardana(snapshot)
  IN IF b = 0 THEN w
     ELSE
       LET bardanaItem == snapshot[b]
           totalBardanaReduction == SumQuantity(soldItems)
           bardanaReductionBags == KgToBags(totalBardanaReduction)
           newBardanaStock == BardanaNewStock(bardanaItem.openingStock, bardanaReductionBags)
           tx == [StockTx(bardanaItem, "sale", totalBardanaReduction,
                          bardanaItem.openingStock, newBardanaStock, invoiceId)
                    EXCEPT !.itemName = "Bardana"]
       IN World(itemsApiUpdate(w.items, bardanaItem.id,
                               [bardanaItem EXCEPT !.openingStock = newBardanaStock]),
                Append(w.log, tx), w.processed)

\* this.processedInvoices.add(invoiceId)
MarkProcessedNever(w, invoiceId) == w

MarkProcessedOnly(w, invoiceId) ==
  IF Truthy(invoiceId) THEN World(w.items, w.log, {invoiceId}) ELSE w

MarkProcessed(w, invoiceId) ==
  IF Truthy(invoiceId) THEN World(w.items, w.log, w.processed \cup {invoiceId}) ELSE w

updateStockOnSale(w, soldItems, invoiceId) ==
  IF Len(soldItems) = 0 THEN w
  ELSE IF Truthy(invoiceId) /\ invoiceId \in w.processed THEN w
  ELSE IF Len(w.items) = 0 THEN w
  ELSE MarkProcessed(
         SaleBardana(SaleLoop(w, w.items, soldItems, invoiceId), w.items, soldItems, invoiceId),
         invoiceId)

-----------------------------------------------------------------------------
(* StockManager.updateStockOnPurchase *)

RECURSIVE PurchaseLoop(_, _, _)
PurchaseLoop(w, snapshot, purchasedItems) ==
  IF purchasedItems = <<>> THEN w
  ELSE
    LET purchasedItem == purchasedItems[1]
        k == FindByName(snapshot, purchasedItem.itemName)
    IN IF k = 0 THEN PurchaseLoop(w, snapshot, Tail(purchasedItems))
       ELSE
         LET item == snapshot[k]
             currentStockBags == item.openingStock
             newStockBags == currentStockBags + KgToBags(purchasedItem.quantity)
             tx == StockTx(item, "purchase", purchasedItem.quantity, currentStockBags,
                           newStockBags, "purchase_bill")
             w2 == World(itemsApiUpdate(w.items, item.id, [item EXCEPT !.openingStock = newStockBags]),
                         Append(w.log, tx), w.processed)
         IN PurchaseLoop(w2, snapshot, Tail(purchasedItems))

PurchaseBardana(w, snapshot, purchasedItems) ==
  LET b == FindBardana(snapshot)
  IN IF b = 0 THEN w
     ELSE
       LET bardanaItem == snapshot[b]
           totalBardanaAddition == SumQuantity(purchasedItems)
           bardanaAdditionBags == KgToBags(totalBardanaAddition)
           newBardanaStock == bardanaItem.openingStock + bardanaAdditionBags
           tx == [StockTx(bardanaItem, "purchase", totalBardanaAddition,
                          bardanaItem.openingStock, newBardanaStock, "purchase_bill")
                    EXCEPT !.itemName = "Bardana"]
       IN World(itemsApiUpdate(w.items, bardanaItem.id,
                               [bardanaItem EXCEPT !.openingStock = newBardanaStock]),
                Append(w.log, tx), w.processed)

updateStockOnPurchase(w, purchasedItems) ==
  IF Len(purchasedItems) = 0 THEN w
  ELSE IF Len(w.items) = 0 THEN w
  ELSE PurchaseBardana(PurchaseLoop(w, w.items, purchasedItems), w.items, purchasedItems)

-----------------------------------------------------------------------------
(* StockManager.revertStockOnSale *)

RECURSIVE RevertLoop(_, _, _)
RevertLoop(w, snapshot, soldItems) ==
  IF soldItems = <<>> THEN w
  ELSE
    LET soldItem == soldItems[1]
        k == FindByName(snapshot, soldItem.itemName)
    IN IF k = 0 THEN RevertLoop(w, snapshot, Tail(soldItems))
       ELSE
         LET item == snapshot[k]
             currentStockBags == item.openingStock
             newStockBags == currentStockBags + KgToBags(soldItem.quantity)
             tx == StockTx(item, "return", soldItem.quantity, currentStockBags,
                           newStockBags, "reversal")
             w2 == World(itemsApiUpdate(w.items, item.id, [item EXCEPT !.openingStock = newStockBags]),
                         Append(w.log, tx), w.processed)
         IN RevertLoop(w2, snapshot, Tail(soldItems))

RevertBardana(w, snapshot, soldItems) ==
  LET b == FindBardana(snapshot)
  IN IF b = 0 THEN w
     ELSE
       LET bardanaItem == snapshot[b]
           totalBardanaRestoration == SumQuantity(soldItems)
           bardanaRestorationBags == KgToBags(totalBardanaRestoration)
           newBardanaStock == bardanaItem.openingStock + bardanaRestorationBags
           tx == [StockTx(bardanaItem, "return", totalBardanaRestoration,
                          bardanaItem.openingStock, newBardanaStock, "reversal")
                    EXCEPT !.itemName = "Bardana"]
       IN World(itemsApiUpdate(w.items, bardanaItem.id,
                               [bardanaItem EXCEPT !.openingStock = newBardanaStock]),
                Append(w.log, tx), w.processed)

revertStockOnSaleClearing(w, soldItems) ==
  IF Len(w.items) = 0 THEN World(w.items, w.log, {})
  ELSE LET r == RevertBardana(RevertLoop(w, w.items, soldItems), w.items, soldItems)
       IN World(r.items, r.log, {})

revertStockOnSale(w, soldItems) ==
  IF Len(w.items) = 0 THEN w
  ELSE RevertBardana(RevertLoop(w, w.items, soldItems), w.items, soldItems)

-----------------------------------------------------------------------------
(* StockManager.initializeBardana: check, then create with zero stock.     *)
(* createOpeningStockTransaction logs only when the opening stock is > 0.  *)

createOpeningStockTransaction(log, item, openingStockBags) ==
  IF openingStockBags > 0
  THEN Append(log, StockTx(item, "opening_stock", (openingStockBags * KgPerBag) \div UnitsPerBag,
                           0, openingStockBags, item.id))
  ELSE log

initializeBardanaUnchecked(w) ==
  LET createdBardana == Item("bardana", "Bardana", 0, TRUE)
  IN World(Append(w.items, createdBardana),
           createOpeningStockTransaction(w.log, createdBardana, 0),
           w.processed)

initializeBardana(w) ==
  LET bardanaExists == \E i \in DOMAIN w.items :
                          w.items[i].isUniversal /\ w.items[i].productName = "Bardana"
  IN IF bardanaExists THEN w
     ELSE LET createdBardana == Item("bardana", "Bardana", 0, TRUE)
          IN World(Append(w.items, createdBardana),
                   createOpeningStockTransaction(w.log, createdBardana, 0),
                   w.processed)

clearProcessedInvoices(w) == World(w.items, w.log, {})

removeProcessedInvoice(w, invoiceId) == World(w.items, w.log, w.processed \ {invoiceId})

-----------------------------------------------------------------------------
(* The local-storage StockManager: quantities are totalled per item name,  *)
(* then every stored item is mapped; it has no Bardana rule, no log and    *)
(* no processed set.                                                       *)

\* soldItemsMap.get(name), with a missing entry read as 0 (both are falsy)
RECURSIVE MapGet(_, _)
MapGet(lines, name) ==
  IF lines = <<>> THEN 0
  ELSE (IF lines[1].itemName = name THEN lines[1].quantity ELSE 0) + MapGet(Tail(lines), name)

localUpdateStockOnSale(its, soldItems) ==
  IF its = Null THEN its
  ELSE Stored([i \in DOMAIN its.value |->
          LET soldQuantity == MapGet(soldItems, its.value[i].productName)
          IN IF soldQuantity # 0
             THEN [its.value[i] EXCEPT !.openingStock = Max(0, its.value[i].openingStock - KgToBags(soldQuantity))]
             ELSE its.value[i]])

localUpdateStockOnPurchase(its, purchasedItems) ==
  IF its = Null THEN its
  ELSE Stored([i \in DOMAIN its.value |->
          LET purchasedQuantity == MapGet(purchasedItems, its.value[i].productName)
          IN IF purchasedQuantity # 0
             THEN [its.value[i] EXCEPT !.openingStock = its.value[i].openingStock + KgToBags(purchasedQuantity)]
             ELSE its.value[i]])

localRevertStockOnSale(its, soldItems) ==
  IF its = Null THEN its
  ELSE Stored([i \in DOMAIN its.value |->
          LET soldQuantity == MapGet(soldItems, its.value[i].productName)
          IN IF soldQuantity # 0
             THEN [its.value[i] EXCEPT !.openingStock = its.value[i].openingStock + KgToBags(soldQuantity)]
             ELSE its.value[i]])

-----------------------------------------------------------------------------
(* Failing backend requests.  After itemsApi.getAll a call sends, for every *)
(* transaction it logs, stockTransactionsApi.create and then itemsApi.update *)
(* of that item; a rejected request throws out of the loop, is caught,      *)
(* logged and thrown again.  The local-storage variant reads and writes     *)
(* through Storage.getObject / Storage.setObject, which catch the error.    *)

MaxFaultCalls == 2

\* line lists and invoice ids of the calls that are run with failing requests
FaultLists ==
  { <<SaleItem("Sack", 300)>>,
    <<SaleItem("sack", 60), SaleItem("Sack", 45)>>,
    <<SaleItem("Sack", 45), SaleItem("Sack", 60)>> }

FaultInvoiceArgs == {"INV-1", Undefined}

NewTransactions(before, after) == SubSeq(after.log, Len(before.log) + 1, Len(after.log))

\* the world after the first `done` write requests of the call went through
RECURSIVE ApplyRequests(_, _, _, _)
ApplyRequests(w, snapshot, txs, done) ==
  IF txs = <<>> \/ done = 0 THEN w
  ELSE
    LET tx == txs[1]
        created == World(w.items, Append(w.log, tx), w.processed)
        item == snapshot[CHOOSE i \in DOMAIN snapshot : snapshot[i].id = tx.itemId]
        updated == World(itemsApiUpdate(w.items, tx.itemId,
                                        [item EXCEPT !.openingStock = tx.newStock]),
                         created.log, w.processed)
    IN IF done = 1 THEN created
       ELSE ApplyRequests(updated, snapshot, Tail(txs), done - 2)

\* number of backend requests of a call that gets as far as itemsApi.getAll
Requests(before, full) == 1 + 2 * Len(NewTransactions(before, full))

ApiResultMarking(before, full, failAt) ==
  IF failAt = 0 THEN full
  ELSE IF failAt = 1 THEN World(before.items, before.log, full.processed)
  ELSE LET w == ApplyRequests(before, before.items, NewTransactions(before, full), failAt - 2)
       IN World(w.items, w.log, full.processed)

\* the call's effect when its failAt-th request is rejected (0: none is)
ApiResult(before, full, failAt) ==
  IF failAt = 0 THEN full
  ELSE IF failAt = 1 THEN before
  ELSE ApplyRequests(before, before.items, NewTransactions(before, full), failAt - 2)

\* catch (error) { console.error(...); throw error; }
ApiOutcomeSwallowed(failAt) == "ok"

ApiOutcome(failAt) == IF failAt = 0 THEN "ok" ELSE "error"

\* Storage.getObject: a failed read is caught and null is returned
StorageGetObject(stored, fails) == IF fails THEN Null ELSE stored

\* Storage.setObject: a failed write is caught, nothing is stored
StorageSetObject(stored, value, fails) == IF fails THEN stored ELSE value

\* one call of the local-storage variant: read, if (!items) return, map, write
\* (mapped: the items the call computes from what it read)
LocalCall(its, mapped, fault) ==
  LET read == StorageGetObject(its, fault = "read")
  IN IF read = Null THEN its
     ELSE StorageSetObject(its, mapped, fault = "write")

\* nothing thrown reaches the variant's catch block, so it returns normally
LocalOutcome(fault) == "ok"

LocalFaults(its) == IF its = Null THEN {"none", "read"} ELSE {"none", "read", "write"}

-----------------------------------------------------------------------------
(* Actions of the stock engine: one completed call each *)

Here == World(items, stockTransactions, processedInvoices)

Call(op, lines, id) == [op |-> op, soldItems |-> lines, invoiceId |-> id]

\* no backend request of the call fails
NoFault == [api |-> 0, local |-> "none"]

Outcome(api, local, fault) == [api |-> api, local |-> local, fault |-> fault]

CommitWithin(bound, w, loc, call, out) ==
  /\ nCalls < bound
  /\ localItems' = loc
  /\ nCalls' = nCalls + 1
  /\ items' = w.items
  /\ stockTransactions' = w.log
  /\ processedInvoices' = w.processed
  /\ lastCall' = call
  /\ pre' = Here
  /\ outcome' = out
  /\ UNCHANGED <<ledgerVars, idVars, extVars>>

Commit(w, loc, call) == CommitWithin(MaxCalls, w, loc, call, Outcome("ok", "ok", NoFault))

UpdateStockOnSale ==
  \E lines \in ItemLists, id \in InvoiceArgs :
    Commit(updateStockOnSale(Here, lines, id), localUpdateStockOnSale(localItems, lines),
           Call("updateStockOnSale", lines, id))

UpdateStockOnPurchase ==
  \E lines \in ItemLists :
    Commit(updateStockOnPurchase(Here, lines), localUpdateStockOnPurchase(localItems, lines),
           Call("updateStockOnPurchase", lines, Undefined))

RevertStockOnSale ==
  \E lines \in ItemLists :
    Commit(revertStockOnSale(Here, lines), localRevertStockOnSale(localItems, lines),
           Call("revertStockOnSale", lines, Undefined))

InitializeBardana ==
  Commit(initializeBardana(Here), localItems, Call("initializeBardana", <<>>, Undefined))

\* createOpeningStockTransaction is for a new item: it is called with the
\* item's own opening stock, before anything else was logged for the item
CreateOpeningStockTransaction ==
  \E i \in DOMAIN items :
    /\ \A k \in DOMAIN stockTransactions : stockTransactions[k].itemId # items[i].id
    /\ Commit(World(items,
                    createOpeningStockTransaction(stockTransactions, items[i],
                                                  items[i].openingStock),
                    processedInvoices),
              localItems, Call("createOpeningStockTransaction", <<>>, Undefined))

ClearProcessedInvoices ==
  Commit(clearProcessedInvoices(Here), localItems, Call("clearProcessedInvoices", <<>>, Undefined))

RemoveProcessedInvoice ==
  \E id \in InvoiceIds :
    Commit(removeProcessedInvoice(Here, id), localItems, Call("removeProcessedInvoice", <<>>, id))

\* the two variants have separate stores: a call is run with a failing
\* request in at most one of them
CallWithFaults(full, reaches, mapped, call) ==
  \E failAt \in 0..(IF reaches THEN Requests(Here, full) ELSE 0),
     fault \in LocalFaults(localItems) :
    /\ failAt = 0 \/ fault = "none"
    /\ CommitWithin(MaxFaultCalls, ApiResult(Here, full, failAt),
                    LocalCall(localItems, mapped, fault), call,
                    Outcome(ApiOutcome(failAt), LocalOutcome(fault),
                            [api |-> failAt, local |-> fault]))

UpdateStockOnSaleWithFaults ==
  \E lines \in FaultLists, id \in FaultInvoiceArgs :
    CallWithFaults(updateStockOnSale(Here, lines, id),
                   Len(lines) > 0 /\ ~(Truthy(id) /\ id \in processedInvoices),
                   localUpdateStockOnSale(localItems, lines),
                   Call("updateStockOnSale", lines, id))

UpdateStockOnPurchaseWithFaults ==
  \E lines \in FaultLists :
    CallWithFaults(updateStockOnPurchase(Here, lines), Len(lines) > 0,
                   localUpdateStockOnPurchase(localItems, lines),
                   Call("updateStockOnPurchase", lines, Undefined))

RevertStockOnSaleWithFaults ==
  \E lines \in FaultLists :
    CallWithFaults(revertStockOnSale(Here, lines), TRUE,
                   localRevertStockOnSale(localItems, lines),
                   Call("revertStockOnSale", lines, Undefined))

IdIdle ==
  /\ clock = 0
  /\ issuedIds = <<>>

UnitIdle ==
  /\ bagStock = Null
  /\ kgBooked = 0
  /\ kgReported = [itemName |-> "", kg |-> 0, after |-> 0]
  /\ nConversions = 0

\* the callers whose updateStockOnSale calls may overlap
Callers == {"c1", "c2"}

NotCalled == [pc |-> "idle", soldItems |-> <<>>, invoiceId |-> Undefined,
              snapshot |-> <<>>, pending |-> <<>>]

RaceIdle ==
  /\ running = [c \in Callers |-> NotCalled]
  /\ itemUpdates = <<>>

PayIdle ==
  /\ storedPayments = Null
  /\ paymentsIn = <<>>
  /\ paymentScreen = [mounted |-> FALSE, op |-> "none"]

InvoiceIdle ==
  /\ salesInvoices = Null
  /\ saleInvoices = <<>>
  /\ salesScreen = [mounted |-> FALSE, op |-> "none"]
  /\ invoiceTime = 1
  /\ deletedInvoices = {}

ExtIdle == UnitIdle /\ RaceIdle /\ PayIdle /\ InvoiceIdle

\* no item, no transaction and no StockManager call yet
StockIdle ==
  /\ items = <<>>
  /\ stockTransactions = <<>>
  /\ processedInvoices = {}
  /\ lastCall = Call("none", <<>>, Undefined)
  /\ pre = World(<<>>, <<>>, {})
  /\ nCalls = 0
  /\ localItems = Null
  /\ outcome = Outcome("none", "none", NoFault)

LedgerIdle ==
  /\ documents = Null
  /\ payments = Null
  /\ ledgerOut = [op |-> "none", name |-> <<>>, phoneNumber |-> <<>>, list |-> <<>>, balance |-> 0]

Init ==
  /\ items \in InitialItems
  /\ stockTransactions = <<>>
  /\ processedInvoices = {}
  /\ lastCall = Call("none", <<>>, Undefined)
  /\ pre = World(items, <<>>, {})
  /\ nCalls = 0
  /\ localItems = (IF items = <<>> THEN Null ELSE Stored(items))
  /\ outcome = Outcome("none", "none", NoFault)
  /\ IdIdle
  /\ LedgerIdle
  /\ ExtIdle

Next ==
  \/ UpdateStockOnSale
  \/ UpdateStockOnPurchase
  \/ RevertStockOnSale
  \/ InitializeBardana
  \/ CreateOpeningStockTransaction
  \/ ClearProcessedInvoices
  \/ RemoveProcessedInvoice

Spec == Init /\ [][Next]_vars

FaultNext ==
  \/ UpdateStockOnSaleWithFaults
  \/ UpdateStockOnPurchaseWithFaults
  \/ RevertStockOnSaleWithFaults

FaultSpec == Init /\ [][FaultNext]_vars

-----------------------------------------------------------------------------
(* Party ledger.  CustomerManager (invoices, payments-in), SupplierManager *)
(* (bills, payments-out) and PartyManager run the same fold over the two   *)
(* collections of one direction; an entry carries the party name, the      *)
(* phone number, the amount (totalAmount of a document, received / paid    *)
(* of a payment) and the date.  A date is written as the timestamp that    *)
(* new Date(date).getTime() gives for it.                                  *)

\* stored documents and payments, taken together
MaxEntries == 2

Entry(n, p, a, d) == [name |-> n, phoneNumber |-> p, amount |-> a, date |-> d]

Parties ==
  { [name |-> <<"b">>, phoneNumber |-> <<"7">>],
    [name |-> <<"B">>, phoneNumber |-> <<"7">>],
    [name |-> <<"b", "-", "7">>, phoneNumber |-> <<"7">>],
    [name |-> <<"b">>, phoneNumber |-> <<"7", "-", "7">>] }

\* amount and date of the documents and payments that get stored
DocumentTerms == {[amount |-> 500, date |-> 1], [amount |-> 1000, date |-> 2]}

PaymentTerms == {[amount |-> 400, date |-> 1], [amount |-> 200, date |-> 2]}

\* String.prototype.toLowerCase, character by character
Lower(c) == CASE c = "A" -> "a" [] c = "B" -> "b" [] OTHER -> c

ToLowerCase(str) == [i \in DOMAIN str |-> Lower(str[i])]

\* `${name.toLowerCase()}-${phoneNumber}`
PartyKey(name, phoneNumber) == ToLowerCase(name) \o <<"-">> \o phoneNumber

\* Map.get(key) on the insertion-ordered map: index of the record, 0 if none
MapIndex(map, key) ==
  LET hits == {i \in DOMAIN map : map[i].id = key}
  IN IF hits = {} THEN 0 ELSE CHOOSE i \in hits : TRUE

\* existing.totalInvoiced += invoice.totalAmount
AddBilledOverwrite(existing, doc) == doc.amount

AddBilled(existing, doc) == existing.totalBilled + doc.amount

\* existing.balance = existing.totalInvoiced - existing.totalPaid
NewBalanceSum(billed, paid) == billed + paid

NewBalance(billed, paid) == billed - paid

RECURSIVE ProcessDocuments(_, _)
ProcessDocuments(map, docs) ==
  IF docs = <<>> THEN map
  ELSE
    LET doc == docs[1]
        key == PartyKey(doc.name, doc.phoneNumber)
        k == MapIndex(map, key)
        map2 ==
          IF k # 0
          THEN LET existing == map[k]
                   billed == AddBilled(existing, doc)
               IN [map EXCEPT ![k] =
                     [existing EXCEPT
                        !.totalBilled = billed,
                        !.balance = NewBalance(billed, existing.totalPaid),
                        !.lastTransactionDate =
                           IF doc.date > existing.lastTransactionDate
                           THEN doc.date ELSE existing.lastTransactionDate]]
          ELSE Append(map, [id |-> key, name |-> doc.name, phoneNumber |-> doc.phoneNumber,
                            totalBilled |-> doc.amount, totalPaid |-> 0,
                            balance |-> doc.amount, lastTransactionDate |-> doc.date])
    IN ProcessDocuments(map2, Tail(docs))

PaymentOnlyRecordOwed(key, payment) ==
  [id |-> key, name |-> payment.name, phoneNumber |-> payment.phoneNumber,
   totalBilled |-> 0, totalPaid |-> payment.amount, balance |-> payment.amount,
   lastTransactionDate |-> payment.date]

\* customerMap.set(key, {...}) for a payment whose key has no record yet
PaymentOnlyRecord(key, payment) ==
  [id |-> key, name |-> payment.name, phoneNumber |-> payment.phoneNumber,
   totalBilled |-> 0, totalPaid |-> payment.amount, balance |-> 0 - payment.amount,
   lastTransactionDate |-> payment.date]

RECURSIVE ProcessPayments(_, _)
ProcessPayments(map, pays) ==
  IF pays = <<>> THEN map
  ELSE
    LET payment == pays[1]
        key == PartyKey(payment.name, payment.phoneNumber)
        k == MapIndex(map, key)
        map2 ==
          IF k # 0
          THEN LET existing == map[k]
                   paid == existing.totalPaid + payment.amount
               IN [map EXCEPT ![k] =
                     [existing EXCEPT
                        !.totalPaid = paid,
                        !.balance = NewBalance(existing.totalBilled, paid),
                        !.lastTransactionDate =
                           IF payment.date > existing.lastTransactionDate
                           THEN payment.date ELSE existing.lastTransactionDate]]
          ELSE Append(map, PaymentOnlyRecord(key, payment))
    IN ProcessPayments(map2, Tail(pays))

\* bills?.forEach / payments?.forEach: a null collection is skipped
FoldParties(docs, pays) == ProcessPayments(ProcessDocuments(<<>>, docs.value), pays.value)

\* Array.prototype.sort with (a, b) => time(b) - time(a): descending, stable
RECURSIVE InsertByDateDesc(_, _)
InsertByDateDesc(sorted, r) ==
  IF sorted = <<>> THEN <<r>>
  ELSE IF sorted[1].lastTransactionDate >= r.lastTransactionDate
       THEN <<sorted[1]>> \o InsertByDateDesc(Tail(sorted), r)
       ELSE <<r>> \o sorted

RECURSIVE SortByDateDesc(_)
SortByDateDesc(list) ==
  IF list = <<>> THEN <<>>
  ELSE InsertByDateDesc(SortByDateDesc(SubSeq(list, 1, Len(list) - 1)), list[Len(list)])

\* CustomerManager.getAllCustomers
getAllCustomers(invoices, pays) ==
  IF ~invoices.present /\ ~pays.present THEN <<>>
  ELSE SortByDateDesc(FoldParties(invoices, pays))

\* SupplierManager.getAllSuppliers
getAllSuppliers(bills, pays) ==
  IF ~bills.present /\ ~pays.present THEN <<>>
  ELSE SortByDateDesc(FoldParties(bills, pays))

\* PartyManager.getPartiesByType: Array.from(map.values()), not sorted
getPartiesByType(docs, pays) ==
  IF ~docs.present /\ ~pays.present THEN <<>>
  ELSE FoldParties(docs, pays)

\* entries.filter(e => e.name.toLowerCase() === name.toLowerCase() && e.phoneNumber === phoneNumber)
FilterParty(entries, name, phoneNumber) ==
  SelectSeq(entries, LAMBDA e : ToLowerCase(e.name) = ToLowerCase(name)
                                 /\ e.phoneNumber = phoneNumber)

RECURSIVE SumAmount(_)
SumAmount(entries) ==
  IF entries = <<>> THEN 0 ELSE entries[1].amount + SumAmount(Tail(entries))

\* CustomerManager.getCustomerBalance
getCustomerBalance(invoices, pays, customerName, phoneNumber) ==
  IF ~invoices.present /\ ~pays.present THEN 0
  ELSE SumAmount(FilterParty(invoices.value, customerName, phoneNumber))
         - SumAmount(FilterParty(pays.value, customerName, phoneNumber))

\* SupplierManager.getSupplierBalance
getSupplierBalance(bills, pays, supplierName, phoneNumber) ==
  IF ~bills.present /\ ~pays.present THEN 0
  ELSE SumAmount(FilterParty(bills.value, supplierName, phoneNumber))
         - SumAmount(FilterParty(pays.value, supplierName, phoneNumber))

\* PartyManager.getPartyBalance
getPartyBalance(docs, pays, partyName, phoneNumber) ==
  IF ~docs.present /\ ~pays.present THEN 0
  ELSE SumAmount(FilterParty(docs.value, partyName, phoneNumber))
         - SumAmount(FilterParty(pays.value, partyName, phoneNumber))

-----------------------------------------------------------------------------
(* Actions of the ledger: documents and payments are appended to their     *)
(* stored collection; queries read both collections.                       *)

NoQuery == [op |-> "none", name |-> <<>>, phoneNumber |-> <<>>, list |-> <<>>, balance |-> 0]

ListResult(op, list) ==
  [op |-> op, name |-> <<>>, phoneNumber |-> <<>>, list |-> list, balance |-> 0]

BalanceResult(op, party, balance) ==
  [op |-> op, name |-> party.name, phoneNumber |-> party.phoneNumber,
   list |-> <<>>, balance |-> balance]

SaveDocument ==
  \E party \in Parties, t \in DocumentTerms :
    /\ Len(documents.value) + Len(payments.value) < MaxEntries
    /\ documents' = Stored(Append(documents.value,
                                  Entry(party.name, party.phoneNumber, t.amount, t.date)))
    /\ ledgerOut' = NoQuery
    /\ UNCHANGED <<payments, stockVars, idVars, extVars>>

SavePayment ==
  \E party \in Parties, t \in PaymentTerms :
    /\ Len(documents.value) + Len(payments.value) < MaxEntries
    /\ payments' = Stored(Append(payments.value,
                                 Entry(party.name, party.phoneNumber, t.amount, t.date)))
    /\ ledgerOut' = NoQuery
    /\ UNCHANGED <<documents, stockVars, idVars, extVars>>

Query(result) ==
  /\ ledgerOut' = result
  /\ UNCHANGED <<documents, payments, stockVars, idVars, extVars>>

GetAllCustomers == Query(ListResult("getAllCustomers", getAllCustomers(documents, payments)))

GetAllSuppliers == Query(ListResult("getAllSuppliers", getAllSuppliers(documents, payments)))

GetPartiesByType == Query(ListResult("getPartiesByType", getPartiesByType(documents, payments)))

GetCustomerBalance ==
  \E party \in Parties :
    Query(BalanceResult("getCustomerBalance", party,
                        getCustomerBalance(documents, payments, party.name, party.phoneNumber)))

GetSupplierBalance ==
  \E party \in Parties :
    Query(BalanceResult("getSupplierBalance", party,
                        getSupplierBalance(documents, payments, party.name, party.phoneNumber)))

GetPartyBalance ==
  \E party \in Parties :
    Query(BalanceResult("getPartyBalance", party,
                        getPartyBalance(documents, payments, party.name, party.phoneNumber)))

LedgerInit ==
  /\ documents = Null
  /\ payments = Null
  /\ ledgerOut = NoQuery
  /\ items = <<>>
  /\ stockTransactions = <<>>
  /\ processedInvoices = {}
  /\ lastCall = Call("none", <<>>, Undefined)
  /\ pre = World(<<>>, <<>>, {})
  /\ nCalls = 0
  /\ localItems = Null
  /\ outcome = Outcome("none", "none", NoFault)
  /\ IdIdle
  /\ ExtIdle

LedgerNext ==
  \/ SaveDocument
  \/ SavePayment
  \/ GetAllCustomers
  \/ GetAllSuppliers
  \/ GetPartiesByType
  \/ GetCustomerBalance
  \/ GetSupplierBalance
  \/ GetPartyBalance

LedgerSpec == LedgerInit /\ [][LedgerNext]_vars

-----------------------------------------------------------------------------
(* StockManager.generateTransactionId: `ST-${dateStr}-${timestamp}` with    *)
(* dateStr the calendar day of new Date() and timestamp the last six digits *)
(* of Date.now().  The clock counts the ms since the start of a day whose   *)
(* epoch time ends in 000000 (every fifth day is one), so that the last six *)
(* digits of Date.now() are those of the clock; days are UTC days.          *)

MaxIssued == 4

MsPerDay == 86400000

\* time that passes between two calls of generateTransactionId
ClockSteps == {1, 999999, 1000000, MsPerDay}

\* Date.now().toString().slice(-6)
LastSixDigits(now) == now % 1000000

\* getFullYear() + (getMonth() + 1) + getDate(), as the number of the day
DateStr(now) == now \div MsPerDay

generateTransactionId(now) == [dateStr |-> DateStr(now), timestamp |-> LastSixDigits(now)]

GenerateTransactionId ==
  \E step \in ClockSteps :
    /\ Len(issuedIds) < MaxIssued
    /\ clock' = clock + step
    /\ issuedIds' = Append(issuedIds, [at |-> clock + step,
                                       transactionId |-> generateTransactionId(clock + step)])
    /\ UNCHANGED <<stockVars, ledgerVars, extVars>>

IdInit ==
  /\ IdIdle
  /\ LedgerIdle
  /\ ExtIdle
  /\ items = <<>>
  /\ stockTransactions = <<>>
  /\ processedInvoices = {}
  /\ lastCall = Call("none", <<>>, Undefined)
  /\ pre = World(<<>>, <<>>, {})
  /\ nCalls = 0
  /\ localItems = Null
  /\ outcome = Outcome("none", "none", NoFault)

IdNext == GenerateTransactionId

IdSpec == IdInit /\ [][IdNext]_vars

-----------------------------------------------------------------------------
(* Unit conversion.  Stock is stored in bags as a JavaScript number, a      *)
(* binary floating-point value: handleCreateItem stores openingStockKg / 30,*)
(* a sale, purchase or reversal adds or subtracts quantity / 30, and        *)
(* getItemStock returns Math.round(openingStock * 30).  Every operation is  *)
(* rounded to nearest, ties to even.  A number is written [m, e] for        *)
(* m * 2^e with m below 2^SignificandBits; a double has 53 significand bits,*)
(* the model fewer, with quantities scaled down to match.                   *)

SignificandBits == 13

MaxKg == 40

MaxConversions == 2

\* line quantities of the sales, purchases and reversals of the product
LineKgs == {1, 7, 30, 45}

RECURSIVE Pow2(_)
Pow2(k) == IF k = 0 THEN 1 ELSE 2 * Pow2(k - 1)

Zero == [m |-> 0, e |-> 0]

RoundHalfEven(n, d) ==
  LET fl == n \div d
      r == n % d
  IN IF 2 * r < d THEN fl
     ELSE IF 2 * r > d THEN fl + 1
     ELSE IF fl % 2 = 0 THEN fl ELSE fl + 1

\* the number nearest to (n / d) * 2^e
RECURSIVE Nearest(_, _, _)
Nearest(n, d, e) ==
  IF n = 0 THEN Zero
  ELSE IF n \div d >= Pow2(SignificandBits) THEN Nearest(n, 2 * d, e + 1)
  ELSE IF n \div d < Pow2(SignificandBits - 1)
       THEN IF d % 2 = 0 THEN Nearest(n, d \div 2, e - 1) ELSE Nearest(2 * n, d, e - 1)
  ELSE LET m == RoundHalfEven(n, d)
       IN IF m = Pow2(SignificandBits) THEN [m |-> Pow2(SignificandBits - 1), e |-> e + 1]
          ELSE [m |-> m, e |-> e]

\* x as the fraction Numer(x) / Denom(x)
Numer(x) == IF x.e > 0 THEN x.m * Pow2(x.e) ELSE x.m

Denom(x) == IF x.e < 0 THEN Pow2(0 - x.e) ELSE 1

FromInt(k) == Nearest(k, 1, 0)

\* x / k and x * k for a whole number k
FDiv(x, k) == Nearest(Numer(x), Denom(x) * k, 0)

FMul(x, k) == Nearest(Numer(x) * k, Denom(x), 0)

CommonDenom(x, y) == Max(Denom(x), Denom(y))

OverCommon(x, y) == Numer(x) * (CommonDenom(x, y) \div Denom(x))

FAdd(x, y) == Nearest(OverCommon(x, y) + OverCommon(y, x), CommonDenom(x, y), 0)

\* Math.max(0, x - y)
FSubClamped(x, y) ==
  IF OverCommon(x, y) <= OverCommon(y, x) THEN Zero
  ELSE Nearest(OverCommon(x, y) - OverCommon(y, x), CommonDenom(x, y), 0)

\* Math.round: the nearest whole number, a tie going up
MathRound(x) == (2 * Numer(x) + Denom(x)) \div (2 * Denom(x))

KgToBagsUndivided(kg) == FromInt(kg)

\* openingStockKg / 30, soldItem.quantity / 30
KgToBagsNumber(kg) == FDiv(FromInt(kg), KgPerBag)

\* Math.round(item.openingStock * 30); 0 if the product is not found
getItemStock(stock, itemName) ==
  IF stock = Null \/ itemName # "Sack" THEN 0
  ELSE MathRound(FMul(stock.value, KgPerBag))

ConvertStep(stock, kg) ==
  /\ nConversions < MaxConversions
  /\ nConversions' = nConversions + 1
  /\ bagStock' = stock
  /\ kgBooked' = kg
  /\ UNCHANGED <<kgReported, stockVars, ledgerVars, idVars, raceVars, payVars,
                   invoiceVars>>

\* items.tsx handleCreateItem: a new product with its opening stock in kg
HandleCreateItem ==
  \E openingStockKg \in 0..MaxKg :
    /\ bagStock = Null
    /\ ConvertStep(Stored(KgToBagsNumber(openingStockKg)), openingStockKg)

\* one matched line of updateStockOnSale
SellKg ==
  \E quantity \in LineKgs :
    /\ bagStock # Null
    /\ ConvertStep(Stored(FSubClamped(bagStock.value, KgToBagsNumber(quantity))),
                   Max(0, kgBooked - quantity))

\* one matched line of updateStockOnPurchase
PurchaseKg ==
  \E quantity \in LineKgs :
    /\ bagStock # Null
    /\ ConvertStep(Stored(FAdd(bagStock.value, KgToBagsNumber(quantity))), kgBooked + quantity)

\* one matched line of revertStockOnSale
RevertKg ==
  \E quantity \in LineKgs :
    /\ bagStock # Null
    /\ ConvertStep(Stored(FAdd(bagStock.value, KgToBagsNumber(quantity))), kgBooked + quantity)

GetItemStock ==
  \E itemName \in {"Sack", "Widget"} :
    /\ kgReported' = [itemName |-> itemName, kg |-> getItemStock(bagStock, itemName),
                      after |-> nConversions]
    /\ UNCHANGED <<bagStock, kgBooked, nConversions, stockVars, ledgerVars, idVars, raceVars,
                   payVars, invoiceVars>>

UnitInit ==
  /\ ExtIdle
  /\ StockIdle
  /\ IdIdle
  /\ LedgerIdle

UnitNext ==
  \/ HandleCreateItem
  \/ SellKg
  \/ PurchaseKg
  \/ RevertKg
  \/ GetItemStock

UnitSpec == UnitInit /\ [][UnitNext]_vars

-----------------------------------------------------------------------------
(* Overlapping updateStockOnSale calls.  A call runs until its next await   *)
(* and the backend serves one request at a time, so the calls interleave at *)
(* their requests: itemsApi.getAll, then stockTransactionsApi.create and    *)
(* itemsApi.update for every transaction of the call, each computed from    *)
(* the items getAll returned.  The processed check runs when the call       *)
(* starts, processedInvoices.add after its last request has returned.       *)

RaceLists == { <<SaleItem("Sack", 60)>>, <<SaleItem("Sack", 45)>> }

RaceItems ==
  { <<Item("i1", "Sack", 10 * UnitsPerBag, FALSE)>>,
    <<Item("i1", "Sack", 10 * UnitsPerBag, FALSE), Item("i2", "Bardana", 2 * UnitsPerBag, TRUE)>> }

\* the transactions a call logs, given the items its getAll returned
TransactionsOf(snapshot, soldItems, invoiceId) ==
  SaleBardana(SaleLoop(World(snapshot, <<>>, {}), snapshot, soldItems, invoiceId),
              snapshot, soldItems, invoiceId).log

Step(c, next) ==
  /\ running' = [running EXCEPT ![c] = next]
  /\ UNCHANGED <<lastCall, pre, nCalls, localItems, outcome, ledgerVars, idVars, unitVars,
                 payVars, invoiceVars>>

\* the call is made: the checks before the first await
StartSale(c) ==
  \E soldItems \in RaceLists, invoiceId \in InvoiceIds :
    /\ running[c].pc = "idle"
    /\ Step(c, [NotCalled EXCEPT
                  !.soldItems = soldItems, !.invoiceId = invoiceId,
                  !.pc = IF Len(soldItems) = 0 THEN "returned"
                         ELSE IF Truthy(invoiceId) /\ invoiceId \in processedInvoices
                              THEN "skipped" ELSE "getAll"])
    /\ UNCHANGED <<items, stockTransactions, processedInvoices, itemUpdates>>

\* const items = await itemsApi.getAll()
ServeGetAll(c) ==
  /\ running[c].pc = "getAll"
  /\ LET pending == TransactionsOf(items, running[c].soldItems, running[c].invoiceId)
     IN Step(c, [running[c] EXCEPT
                   !.snapshot = items, !.pending = pending,
                   !.pc = IF Len(items) = 0 THEN "returned"
                          ELSE IF pending = <<>> THEN "finish" ELSE "create"])
  /\ UNCHANGED <<items, stockTransactions, processedInvoices, itemUpdates>>

\* await stockTransactionsApi.create(transactionData)
ServeCreate(c) ==
  /\ running[c].pc = "create"
  /\ stockTransactions' = Append(stockTransactions, running[c].pending[1])
  /\ Step(c, [running[c] EXCEPT !.pc = "update"])
  /\ UNCHANGED <<items, processedInvoices, itemUpdates>>

\* the item of the snapshot with the given id
SnapshotItem(snapshot, id) == snapshot[CHOOSE i \in DOMAIN snapshot : snapshot[i].id = id]

UpdateDataFresh(store, snapshot, tx) ==
  LET item == SnapshotItem(store, tx.itemId)
  IN [item EXCEPT !.openingStock =
        IF tx.newStock >= tx.previousStock
        THEN item.openingStock + tx.quantityInBags
        ELSE Max(0, item.openingStock - tx.quantityInBags)]

\* { ...item, openingStock: newStockBags }, item being the one getAll returned
UpdateData(store, snapshot, tx) ==
  [SnapshotItem(snapshot, tx.itemId) EXCEPT !.openingStock = tx.newStock]

\* await itemsApi.update(item._id, {...})
ServeUpdate(c) ==
  /\ running[c].pc = "update"
  /\ LET tx == running[c].pending[1]
         rest == Tail(running[c].pending)
     IN /\ items' = itemsApiUpdate(items, tx.itemId, UpdateData(items, running[c].snapshot, tx))
        /\ itemUpdates' = Append(itemUpdates, [caller |-> c, itemId |-> tx.itemId,
                                               newStock |-> tx.newStock])
        /\ Step(c, [running[c] EXCEPT
                      !.pending = rest,
                      !.pc = IF rest = <<>> THEN "finish" ELSE "create"])
  /\ UNCHANGED <<stockTransactions, processedInvoices>>

\* if (invoiceId) this.processedInvoices.add(invoiceId)
FinishSale(c) ==
  /\ running[c].pc = "finish"
  /\ processedInvoices' = MarkProcessed(Here, running[c].invoiceId).processed
  /\ Step(c, [running[c] EXCEPT !.pc = "done"])
  /\ UNCHANGED <<items, stockTransactions, itemUpdates>>

RaceInit ==
  /\ items \in RaceItems
  /\ stockTransactions = <<>>
  /\ processedInvoices = {}
  /\ lastCall = Call("none", <<>>, Undefined)
  /\ pre = World(items, <<>>, {})
  /\ nCalls = 0
  /\ localItems = Null
  /\ outcome = Outcome("none", "none", NoFault)
  /\ ExtIdle
  /\ IdIdle
  /\ LedgerIdle

RaceNext ==
  \E c \in Callers :
    \/ StartSale(c)
    \/ ServeGetAll(c)
    \/ ServeCreate(c)
    \/ ServeUpdate(c)
    \/ FinishSale(c)

RaceSpec == RaceInit /\ [][RaceNext]_vars

-----------------------------------------------------------------------------
(* Payment numbers (payment-in.tsx; payment-out.tsx is the same code on the *)
(* payments-out list).  A payment number is written k for `PAY-k` and 0 for *)
(* a missing or empty paymentNo.  The payment-in screen loads the stored    *)
(* list when it is mounted and creates payments from its own copy; the      *)
(* edit-payin screen, opened from the home screen, rewrites one stored      *)
(* payment with the paymentNo typed into its form.                          *)

MaxStoredPayments == 3

\* what can be typed into the paymentNo field of edit-payin
TypedPaymentNos == {0, 1, 2}

Payment(k) == [paymentNo |-> k]

\* payments.some(payment => !payment.paymentNo)
NeedsMigration(list) == \E i \in DOMAIN list : list[i].paymentNo = 0

\* payments.map((payment, index) => ...): a payment without a number gets
\* `PAY-${index + 1}`, its position in the list counted from 1
Migrated(list, position) ==
  IF list[position].paymentNo = 0 THEN Payment(position) ELSE list[position]

migrateExistingPayments(list) ==
  IF ~NeedsMigration(list) THEN list
  ELSE [i \in DOMAIN list |-> Migrated(list, i)]

RECURSIVE MaxNumber(_)
MaxNumber(list) ==
  IF list = <<>> THEN 0 ELSE Max(list[1].paymentNo, MaxNumber(Tail(list)))

generateNextPaymentNumber(list) == MaxNumber(list) + 1

\* the screen is mounted: useEffect runs loadPaymentData
LoadPaymentData ==
  /\ ~paymentScreen.mounted
  /\ paymentScreen' = [mounted |-> TRUE, op |-> "loadPaymentData"]
  /\ IF storedPayments = Null
     THEN UNCHANGED <<storedPayments, paymentsIn>>
     ELSE LET migratedPayments == migrateExistingPayments(storedPayments.value)
          IN /\ paymentsIn' = migratedPayments
             /\ storedPayments' = IF NeedsMigration(storedPayments.value)
                                  THEN Stored(migratedPayments) ELSE storedPayments
  /\ UNCHANGED <<stockVars, ledgerVars, idVars, unitVars, raceVars,
                 invoiceVars>>

HandleCreatePayment ==
  /\ paymentScreen.mounted
  /\ Len(paymentsIn) < MaxStoredPayments
  /\ LET updatedPayments == Append(paymentsIn, Payment(generateNextPaymentNumber(paymentsIn)))
     IN /\ paymentsIn' = updatedPayments
        /\ storedPayments' = Stored(updatedPayments)
  /\ paymentScreen' = [mounted |-> TRUE, op |-> "handleCreatePayment"]
  /\ UNCHANGED <<stockVars, ledgerVars, idVars, unitVars, raceVars,
                 invoiceVars>>

\* router.back(): the screen and its state are gone
ClosePaymentScreen ==
  /\ paymentScreen.mounted
  /\ paymentScreen' = [mounted |-> FALSE, op |-> "back"]
  /\ paymentsIn' = <<>>
  /\ UNCHANGED <<storedPayments, stockVars, ledgerVars, idVars, unitVars, raceVars,
                 invoiceVars>>

\* edit-payin handleSavePayment: the payment is stored with the typed paymentNo
HandleSavePayment ==
  \E i \in DOMAIN storedPayments.value, typed \in TypedPaymentNos :
    /\ ~paymentScreen.mounted
    /\ storedPayments' = Stored([storedPayments.value EXCEPT ![i] = Payment(typed)])
    /\ paymentScreen' = [mounted |-> FALSE, op |-> "handleSavePayment"]
    /\ UNCHANGED <<paymentsIn, stockVars, ledgerVars, idVars, unitVars, raceVars,
                 invoiceVars>>

PayInit ==
  /\ ExtIdle
  /\ StockIdle
  /\ IdIdle
  /\ LedgerIdle

PayNext ==
  \/ LoadPaymentData
  \/ HandleCreatePayment
  \/ ClosePaymentScreen
  \/ HandleSavePayment

PaySpec == PayInit /\ [][PayNext]_vars

-----------------------------------------------------------------------------
(* Sale invoices: the sales screen (a tab, app/(tabs)/sales.tsx) and the    *)
(* home screen's deleteTransaction (app/(tabs)/index.tsx).  The sales       *)
(* screen reads the stored invoices once, when it is mounted; the focus     *)
(* effects reload the customers only.  An invoice is written with the       *)
(* fields the ledger reads: id, customer, totalAmount (amount) and date.    *)

MaxInvoices == 3

InvoiceCustomers ==
  { [name |-> <<"b">>, phoneNumber |-> <<"7">>],
    [name |-> <<"B">>, phoneNumber |-> <<"7">>] }

InvoiceTotals == {500, 1000}

\* newInvoice of createInvoice: id = Date.now().toString()
SaleInvoice(now, customer, total) ==
  [id |-> now, name |-> customer.name, phoneNumber |-> customer.phoneNumber,
   amount |-> total, date |-> now]

\* the screen is mounted: useEffect(() => { loadSalesData(); ... }, [])
LoadSalesData ==
  /\ ~salesScreen.mounted
  /\ salesScreen' = [mounted |-> TRUE, op |-> "loadSalesData"]
  /\ saleInvoices' = IF salesInvoices.present THEN salesInvoices.value ELSE saleInvoices
  /\ UNCHANGED <<salesInvoices, invoiceTime, deletedInvoices>>
  /\ UNCHANGED <<stockVars, ledgerVars, idVars, unitVars, raceVars, payVars>>

\* createInvoice: the new list is built from the screen's state and written
CreateInvoice ==
  \E customer \in InvoiceCustomers, total \in InvoiceTotals :
    /\ salesScreen.mounted
    /\ invoiceTime <= MaxInvoices
    /\ LET newInvoice == SaleInvoice(invoiceTime, customer, total)
           updatedInvoices == Append(saleInvoices, newInvoice)
       IN /\ saleInvoices' = updatedInvoices
          /\ salesInvoices' = Stored(updatedInvoices)
    /\ invoiceTime' = invoiceTime + 1
    /\ salesScreen' = [mounted |-> TRUE, op |-> "createInvoice"]
    /\ UNCHANGED deletedInvoices
    /\ UNCHANGED <<stockVars, ledgerVars, idVars, unitVars, raceVars, payVars>>

\* deleteTransaction of the home screen, case 'sale', for a listed invoice
DeleteTransaction ==
  \E i \in DOMAIN salesInvoices.value :
    LET transaction == salesInvoices.value[i]
        updatedData == SelectSeq(salesInvoices.value,
                                 LAMBDA invoice : invoice.id # transaction.id)
    IN /\ salesInvoices' = Stored(updatedData)
       /\ deletedInvoices' = deletedInvoices \cup {transaction.id}
       /\ salesScreen' = [salesScreen EXCEPT !.op = "deleteTransaction"]
       /\ UNCHANGED <<saleInvoices, invoiceTime>>
       /\ UNCHANGED <<stockVars, ledgerVars, idVars, unitVars, raceVars, payVars>>

\* the app is closed: the sales screen and its state are gone
CloseApp ==
  /\ salesScreen.mounted
  /\ salesScreen' = [mounted |-> FALSE, op |-> "close"]
  /\ saleInvoices' = <<>>
  /\ UNCHANGED <<salesInvoices, invoiceTime, deletedInvoices>>
  /\ UNCHANGED <<stockVars, ledgerVars, idVars, unitVars, raceVars, payVars>>

InvoiceInit ==
  /\ ExtIdle
  /\ StockIdle
  /\ IdIdle
  /\ LedgerIdle

InvoiceNext ==
  \/ LoadSalesData
  \/ CreateInvoice
  \/ DeleteTransaction
  \/ CloseApp

InvoiceSpec == InvoiceInit /\ [][InvoiceNext]_vars

-----------------------------------------------------------------------------
(* Properties of the stock engine *)

Applied(call, before) ==
  /\ call.op = "updateStockOnSale"
  /\ Len(call.soldItems) > 0
  /\ ~(Truthy(call.invoiceId) /\ call.invoiceId \in before.processed)
  /\ Len(before.items) > 0

\* C1: a sale repeated with the same invoiceId leaves items, log and processed
\* set as the first call left them, from every reachable state; and a sale
\* call whose invoiceId was already processed wrote nothing.
C1_IdempotentSale ==
  /\ \A lines \in ItemLists, id \in InvoiceIds :
        LET once == updateStockOnSale(Here, lines, id)
        IN updateStockOnSale(once, lines, id) = once
  /\ (lastCall.op = "updateStockOnSale" /\ lastCall.invoiceId \in pre.processed) => Here = pre

C1_Witness ==
  /\ lastCall.op = "updateStockOnSale"
  /\ lastCall.invoiceId \in pre.processed
  /\ \E k \in DOMAIN pre.log :
        /\ pre.log[k].referenceId = lastCall.invoiceId
        /\ pre.log[k].newStock < pre.log[k].previousStock
  /\ Here = pre

\* C2: every persisted stock, Bardana's included, is >= 0 after any sequence
\* of sale, purchase and reversal calls, in both StockManager variants.
C2_NonNegativeStock ==
  /\ \A i \in DOMAIN items : items[i].openingStock >= 0
  /\ \A i \in DOMAIN localItems.value : localItems.value[i].openingStock >= 0

\* an oversold sale went through: a logged sale asked for more than was there
C2_Witness ==
  /\ lastCall.op = "updateStockOnSale"
  /\ \E k \in DOMAIN stockTransactions :
        /\ k > Len(pre.log)
        /\ stockTransactions[k].itemName = "Sack"
        /\ stockTransactions[k].quantityInBags > stockTransactions[k].previousStock
        /\ stockTransactions[k].newStock = 0
  /\ \E i \in DOMAIN items : items[i].productName = "Sack" /\ items[i].openingStock = 0

\* C3: an applied sale on a store that has Bardana leaves Bardana at
\* max(0, previous - (sum of all line quantities)/30) and ends the log with a
\* Bardana 'sale' transaction for that total and that invoiceId.
C3_BardanaCoMovement ==
  (Applied(lastCall, pre) /\ FindBardana(pre.items) # 0) =>
    LET b == FindBardana(pre.items)
        total == SumQuantity(lastCall.soldItems)
        expected == Max(0, pre.items[b].openingStock - KgToBags(total))
        last == stockTransactions[Len(stockTransactions)]
    IN /\ items[b].productName = "Bardana"
       /\ items[b].openingStock = expected
       /\ Len(stockTransactions) - Len(pre.log) =
            1 + Cardinality({k \in DOMAIN lastCall.soldItems :
                               FindByName(pre.items, lastCall.soldItems[k].itemName) # 0})
       /\ last.itemName = "Bardana"
       /\ last.transactionType = "sale"
       /\ last.quantity = total
       /\ last.previousStock = pre.items[b].openingStock
       /\ last.newStock = expected
       /\ last.referenceId = lastCall.invoiceId

\* the sale had a line that matched no product, and Bardana still moved
C3_Witness ==
  /\ Applied(lastCall, pre)
  /\ FindBardana(pre.items) # 0
  /\ \E k \in DOMAIN lastCall.soldItems :
        FindByName(pre.items, lastCall.soldItems[k].itemName) = 0
  /\ items[FindBardana(pre.items)].openingStock < pre.items[FindBardana(pre.items)].openingStock

\* C4: an applied purchase raises every product by (the quantities of the
\* lines naming it)/30 and Bardana by (the sum of all line quantities)/30.
C4_PurchaseIncreases ==
  (lastCall.op = "updateStockOnPurchase" /\ Len(pre.items) > 0) =>
    \A i \in DOMAIN pre.items :
      items[i].openingStock =
        IF pre.items[i].isUniversal /\ pre.items[i].productName = "Bardana"
        THEN pre.items[i].openingStock + KgToBags(SumQuantity(lastCall.soldItems))
        ELSE pre.items[i].openingStock
               + KgToBags(MapGet(lastCall.soldItems, pre.items[i].productName))

\* C10 as claimed: an invoiceId in the processed set is in it in every later state.
C10_ProcessedOneWay ==
  [][\A id \in InvoiceIds : id \in processedInvoices => id \in processedInvoices']_vars

\* C10 amended: only clearProcessedInvoices and removeProcessedInvoice(id)
\* take an invoiceId out of the processed set, the latter only its argument;
\* sale, purchase, reversal and Bardana bootstrap keep every processed id.
C10_ProcessedKeptExceptByClearOrRemove ==
  [][\A id \in InvoiceIds :
       (id \in processedInvoices /\ id \notin processedInvoices') =>
          \/ lastCall'.op = "clearProcessedInvoices"
          \/ lastCall'.op = "removeProcessedInvoice" /\ lastCall'.invoiceId = id]_vars

\* a processed id survived a later sale under another id
C10_Witness ==
  /\ lastCall.op = "updateStockOnSale"
  /\ Applied(lastCall, pre)
  /\ pre.processed # {}
  /\ lastCall.invoiceId \in InvoiceIds \ pre.processed
  /\ pre.processed \subseteq processedInvoices

\* C11: a sale call with zero line items changes no stock, appends no stock
\* transaction, and marks the invoiceId it was given as processed.
C11_ZeroItemSale ==
  (lastCall.op = "updateStockOnSale" /\ lastCall.soldItems = <<>>) =>
    /\ items = pre.items
    /\ stockTransactions = pre.log
    /\ Truthy(lastCall.invoiceId) => lastCall.invoiceId \in processedInvoices

\* stock the claims expect a purchase or a reversal of these lines to add to
\* the item: the total of all lines for Bardana, else the lines naming it
ExpectedAddition(item, lines) ==
  IF item.isUniversal /\ item.productName = "Bardana"
  THEN KgToBags(SumQuantity(lines))
  ELSE KgToBags(MapGet(lines, item.productName))

IsBardana(item) == item.isUniversal /\ item.productName = "Bardana"

HasBardana(list) == \E i \in DOMAIN list : IsBardana(list[i])

\* lines whose itemName is the productName of a stored item
MatchedLines(list, lines) ==
  {k \in DOMAIN lines : \E i \in DOMAIN list : list[i].productName = lines[k].itemName}

\* the transactions the last call appended
Appended == SubSeq(stockTransactions, Len(pre.log) + 1, Len(stockTransactions))

AppendedBy(after, before) == SubSeq(after.log, Len(before.log) + 1, Len(after.log))

\* C12: a reversal adds quantity/30 to every matched product and total/30 to
\* Bardana and logs 'return' transactions; and an applied sale in which
\* nothing was clamped, followed by the reversal of the same lines, restores
\* every stock.
C12_ReversalCompensates ==
  /\ (lastCall.op = "revertStockOnSale" /\ Len(pre.items) > 0) =>
       /\ \A i \in DOMAIN pre.items :
            items[i].openingStock =
              pre.items[i].openingStock + ExpectedAddition(pre.items[i], lastCall.soldItems)
       /\ \A k \in DOMAIN Appended : Appended[k].transactionType = "return"
  /\ \A lines \in ItemLists, id \in InvoiceArgs :
       LET sold == updateStockOnSale(Here, lines, id)
           new == AppendedBy(sold, Here)
           unclamped == \A k \in DOMAIN new :
                          new[k].newStock = new[k].previousStock - new[k].quantityInBags
           back == revertStockOnSale(sold, lines)
       IN (Applied(Call("updateStockOnSale", lines, id), Here) /\ unclamped) =>
            \A i \in DOMAIN items : back.items[i].openingStock = items[i].openingStock

\* C13: a reversal leaves the processed set as it was, and after sale(id),
\* reversal, a further sale with the same id changes neither stock nor log.
C13_ReversalKeepsProcessed ==
  /\ lastCall.op = "revertStockOnSale" => processedInvoices = pre.processed
  /\ \A lines \in ItemLists, id \in InvoiceIds :
       LET sold == updateStockOnSale(Here, lines, id)
           back == revertStockOnSale(sold, lines)
           again == updateStockOnSale(back, lines, id)
       IN /\ back.processed = sold.processed
          /\ again = back

\* a sale under an id, then a reversal, then the sale under that id again
C13_Witness ==
  /\ lastCall.op = "updateStockOnSale"
  /\ lastCall.invoiceId \in pre.processed
  /\ Len(pre.log) >= 2
  /\ pre.log[1].transactionType = "sale"
  /\ pre.log[1].referenceId = lastCall.invoiceId
  /\ pre.log[Len(pre.log)].transactionType = "return"
  /\ Here = pre

\* C14: the same purchase made twice adds twice the quantity/30 to every
\* matched product and twice the total/30 to Bardana, and appends the
\* purchase transactions twice.
C14_PurchaseNotGuarded ==
  \A lines \in ItemLists :
    LET once == updateStockOnPurchase(Here, lines)
        twice == updateStockOnPurchase(once, lines)
        perCall == Cardinality(MatchedLines(items, lines))
                     + (IF HasBardana(items) THEN 1 ELSE 0)
    IN (Len(items) > 0 /\ Len(lines) > 0) =>
         /\ \A i \in DOMAIN items :
              twice.items[i].openingStock =
                items[i].openingStock + 2 * ExpectedAddition(items[i], lines)
         /\ Len(twice.log) = Len(stockTransactions) + 2 * perCall
         /\ \A k \in DOMAIN AppendedBy(twice, Here) :
              AppendedBy(twice, Here)[k].transactionType = "purchase"

\* C15: a sale or purchase with a line that names no stored product changes
\* no item on account of that line, logs nothing for it, and still handles
\* the other lines and the Bardana movement (which counts the line's kg).
C15_UnmatchedSkipped ==
  ( /\ lastCall.op \in {"updateStockOnSale", "updateStockOnPurchase"}
    /\ Len(lastCall.soldItems) > 0
    /\ Len(pre.items) > 0
    /\ ~(lastCall.op = "updateStockOnSale" /\ lastCall.invoiceId \in pre.processed) ) =>
    LET lines == lastCall.soldItems
        matched == MatchedLines(pre.items, lines)
        type == IF lastCall.op = "updateStockOnSale" THEN "sale" ELSE "purchase"
    IN /\ Len(items) = Len(pre.items)
       /\ Len(Appended) = Cardinality(matched) + (IF HasBardana(pre.items) THEN 1 ELSE 0)
       /\ \A k \in DOMAIN Appended :
            /\ Appended[k].transactionType = type
            /\ \/ \E m \in matched : /\ Appended[k].itemName = lines[m].itemName
                                      /\ Appended[k].quantity = lines[m].quantity
               \/ HasBardana(pre.items) /\ k = Len(Appended) /\ Appended[k].itemName = "Bardana"
       /\ \A m \in matched :
            \E k \in DOMAIN Appended : /\ Appended[k].itemName = lines[m].itemName
                                       /\ Appended[k].quantity = lines[m].quantity
       /\ \A i \in DOMAIN pre.items :
            (/\ ~IsBardana(pre.items[i])
             /\ \A k \in DOMAIN lines : lines[k].itemName # pre.items[i].productName) =>
               items[i] = pre.items[i]
       /\ HasBardana(pre.items) =>
            Appended[Len(Appended)].quantity = SumQuantity(lines)

\* a purchase whose first line names no product ('sack' is not 'Sack') and
\* whose second line does: the second line and Bardana were still handled
C15_Witness ==
  /\ lastCall.op = "updateStockOnPurchase"
  /\ Len(lastCall.soldItems) = 2
  /\ MatchedLines(pre.items, lastCall.soldItems) = {2}
  /\ HasBardana(pre.items)
  /\ Len(Appended) = 2
  /\ \E i \in DOMAIN items :
        /\ items[i].productName = lastCall.soldItems[2].itemName
        /\ items[i].openingStock > pre.items[i].openingStock

\* C16: the store never holds two universal Bardana items, holds exactly one
\* after an initializeBardana call, and a call that finds it changes nothing.
C16_BootstrapIdempotent ==
  /\ Cardinality({i \in DOMAIN items : IsBardana(items[i])}) <= 1
  /\ lastCall.op = "initializeBardana" =>
       /\ Cardinality({i \in DOMAIN items : IsBardana(items[i])}) = 1
       /\ HasBardana(pre.items) => Here = pre
  /\ initializeBardana(initializeBardana(Here)) = initializeBardana(Here)

\* the bootstrap ran on a store whose Bardana an earlier bootstrap had created
C16_Witness ==
  /\ lastCall.op = "initializeBardana"
  /\ \E i \in DOMAIN pre.items : pre.items[i].id = "bardana" /\ IsBardana(pre.items[i])
  /\ Here = pre

\* C17: a bootstrap that creates Bardana appends an 'opening_stock'
\* transaction for Bardana with quantity 0.
C17_BootstrapLogged ==
  (lastCall.op = "initializeBardana" /\ ~HasBardana(pre.items)) =>
    /\ HasBardana(items)
    /\ Len(Appended) = 1
    /\ Appended[1].transactionType = "opening_stock"
    /\ Appended[1].itemName = "Bardana"
    /\ Appended[1].quantity = 0
    /\ Appended[1].newStock = 0

\* quantityInBags = quantity / 30
BagsOfKg(tx) == tx.quantityInBags * KgPerBag = tx.quantity * UnitsPerBag

\* C19 as claimed: every logged transaction has quantityInBags = quantity/30,
\* newStock = previousStock - quantityInBags for a sale and
\* newStock = previousStock + quantityInBags for the other types.
C19_TransactionArithmetic ==
  \A k \in DOMAIN stockTransactions :
    LET tx == stockTransactions[k]
    IN /\ BagsOfKg(tx)
       /\ tx.transactionType = "sale" => tx.newStock = tx.previousStock - tx.quantityInBags
       /\ tx.transactionType \in {"purchase", "return", "opening_stock"} =>
            tx.newStock = tx.previousStock + tx.quantityInBags

\* C19 amended: as above, except that a sale's newStock is clamped at zero:
\* newStock = max(0, previousStock - quantityInBags).
C19_TransactionArithmeticClamped ==
  \A k \in DOMAIN stockTransactions :
    LET tx == stockTransactions[k]
    IN /\ BagsOfKg(tx)
       /\ tx.transactionType \in {"sale", "purchase", "return", "opening_stock"}
       /\ tx.transactionType = "sale" =>
            tx.newStock = Max(0, tx.previousStock - tx.quantityInBags)
       /\ tx.transactionType \in {"purchase", "return", "opening_stock"} =>
            tx.newStock = tx.previousStock + tx.quantityInBags

\* the log holds an opening-stock transaction, a sale that was clamped and a
\* sale that was not
C19_Witness ==
  /\ \E k \in DOMAIN stockTransactions :
        /\ stockTransactions[k].transactionType = "opening_stock"
        /\ stockTransactions[k].quantityInBags > 0
  /\ \E k \in DOMAIN stockTransactions :
        /\ stockTransactions[k].transactionType = "sale"
        /\ stockTransactions[k].previousStock < stockTransactions[k].quantityInBags
        /\ stockTransactions[k].newStock = 0
  /\ \E k \in DOMAIN stockTransactions :
        /\ stockTransactions[k].transactionType = "sale"
        /\ stockTransactions[k].newStock > 0

\* C18: when a backend read or write of a sale, purchase or reversal call
\* fails, the call ends with an error, in both StockManager variants.
C18_FailuresPropagate ==
  lastCall.op \in {"updateStockOnSale", "updateStockOnPurchase", "revertStockOnSale"} =>
    /\ outcome.fault.api # 0 => outcome.api = "error"
    /\ outcome.fault.local # "none" => outcome.local = "error"

\* C23: a sale call that ends with an error leaves its invoiceId out of the
\* processed set, and a call that adds its invoiceId to the set has persisted
\* every transaction and every stock update of the call.
C23_ProcessedAfterSuccess ==
  lastCall.op = "updateStockOnSale" =>
    /\ outcome.api = "error" =>
          /\ lastCall.invoiceId \notin processedInvoices
          /\ processedInvoices = pre.processed
    /\ (lastCall.invoiceId \in processedInvoices /\ lastCall.invoiceId \notin pre.processed) =>
          /\ outcome.api = "ok"
          /\ Here = updateStockOnSale(pre, lastCall.soldItems, lastCall.invoiceId)

\* a sale of INV-1 failed after it had logged a transaction, and INV-1 is not
\* marked processed
C23_Witness ==
  /\ lastCall.op = "updateStockOnSale"
  /\ lastCall.invoiceId = "INV-1"
  /\ outcome.api = "error"
  /\ Len(stockTransactions) > Len(pre.log)
  /\ "INV-1" \notin processedInvoices

\* C27: an applied sale leaves every product at max(0, previous stock - (the
\* sum of the quantities of the lines naming it)/30), which is what the
\* local-storage variant computes for the same items and lines.
C27_RepeatedProduct ==
  (lastCall.op = "updateStockOnSale" /\ Applied(lastCall, pre)) =>
    \A i \in DOMAIN pre.items :
      ~IsBardana(pre.items[i]) =>
        /\ items[i].openingStock
             = Max(0, pre.items[i].openingStock
                        - KgToBags(MapGet(lastCall.soldItems, pre.items[i].productName)))
        /\ items[i].openingStock
             = localUpdateStockOnSale(Stored(pre.items), lastCall.soldItems).value[i].openingStock

\* the positions in the log of the transactions of an item
TransactionsOfItem(log, itemId) == {k \in DOMAIN log : log[k].itemId = itemId}

Latest(positions) == CHOOSE k \in positions : \A j \in positions : j <= k

\* C28: after sequential calls that completed without error, the newStock of
\* an item's latest transaction is the item's stored stock, and every
\* transaction's previousStock is the newStock of the item's transaction
\* before it.
C28_LogMatchesStock ==
  \A i \in DOMAIN items :
    LET txs == TransactionsOfItem(stockTransactions, items[i].id)
    IN /\ txs # {} => stockTransactions[Latest(txs)].newStock = items[i].openingStock
       /\ \A k \in txs :
            LET earlier == {j \in txs : j < k}
            IN earlier # {} =>
                 stockTransactions[k].previousStock = stockTransactions[Latest(earlier)].newStock

\* C29: when a sale call that ended with an error is repeated with the same
\* lines and invoiceId and succeeds, the items and the log are as one
\* successful call would have left them: every stock reduced once, and one
\* 'sale' transaction per line.
C29_RetryAfterFailure ==
  [][ (/\ lastCall.op = "updateStockOnSale"
       /\ Truthy(lastCall.invoiceId)
       /\ outcome.api = "error"
       /\ lastCall' = lastCall
       /\ outcome'.api = "ok")
      => LET once == updateStockOnSale(pre, lastCall.soldItems, lastCall.invoiceId)
         IN /\ items' = once.items
            /\ stockTransactions' = once.log ]_vars

\* C20: two transaction ids generated on the same calendar day differ.
C20_TransactionIdsUnique ==
  \A i, j \in DOMAIN issuedIds :
    (i < j /\ DateStr(issuedIds[i].at) = DateStr(issuedIds[j].at)) =>
       issuedIds[i].transactionId # issuedIds[j].transactionId

-----------------------------------------------------------------------------
(* Properties of overlapping sale calls *)

SaleTransactions(id, itemId) ==
  {k \in DOMAIN stockTransactions :
     /\ stockTransactions[k].transactionType = "sale"
     /\ stockTransactions[k].referenceId = id
     /\ stockTransactions[k].itemId = itemId}

\* C24: however updateStockOnSale calls for one invoiceId overlap, at most one
\* 'sale' transaction per item (product or Bardana) references that invoiceId.
C24_AtMostOnceUnderOverlap ==
  \A id \in InvoiceIds, i \in DOMAIN items :
    Cardinality(SaleTransactions(id, items[i].id)) <= 1

BothDone == \A c \in Callers : running[c].pc = "done"

StockOf(list, name) == list[FindByName(list, name)].openingStock

\* the caller whose itemsApi.update of the item was applied last
LastWriter(itemId) ==
  LET hits == {k \in DOMAIN itemUpdates : itemUpdates[k].itemId = itemId}
  IN itemUpdates[CHOOSE k \in hits : \A j \in hits : j <= k].caller

\* C25: when two overlapping sales of one product with different invoiceIds
\* have both completed, both ids are marked processed and each has its one
\* 'sale' transaction, yet the stored stock is what the last writer computed
\* from its own read: if that read came before the other call's write, the
\* stock shows the last writer's reduction only.
C25_LostUpdate ==
  (BothDone /\ running["c1"].invoiceId # running["c2"].invoiceId) =>
    LET w == LastWriter("i1")
        sold == running[w].soldItems[1].quantity
    IN /\ \A c \in Callers :
            /\ running[c].invoiceId \in processedInvoices
            /\ Cardinality(SaleTransactions(running[c].invoiceId, "i1")) = 1
       /\ StockOf(items, "Sack")
            = SaleNewStock(StockOf(running[w].snapshot, "Sack"), sold)
       /\ running[w].snapshot = pre.items =>
            StockOf(items, "Sack") = StockOf(pre.items, "Sack") - KgToBags(sold)

\* two sales of 60 kg and 45 kg of Sack with different invoiceIds have both
\* completed, both are logged and marked, and the stock is down by 45 kg only
C25_Witness ==
  /\ BothDone
  /\ running["c1"].invoiceId # running["c2"].invoiceId
  /\ running["c1"].soldItems = <<SaleItem("Sack", 60)>>
  /\ running["c2"].soldItems = <<SaleItem("Sack", 45)>>
  /\ processedInvoices = InvoiceIds
  /\ \A id \in InvoiceIds : Cardinality(SaleTransactions(id, "i1")) = 1
  /\ StockOf(items, "Sack") = StockOf(pre.items, "Sack") - KgToBags(45)

-----------------------------------------------------------------------------
(* Properties of the payment numbers *)

\* no two payments of the list carry the same paymentNo
UniqueNumbers(list) ==
  \A i, j \in DOMAIN list :
    (i # j /\ list[i].paymentNo # 0) => list[i].paymentNo # list[j].paymentNo

-----------------------------------------------------------------------------
(* Properties of the unit conversion *)

\* C21: a stock stored as q/30 bags is reported by getItemStock as exactly
\* q kg, and stays exact in kg through sales, purchases and reversals, which
\* divide by the same 30; an unknown product is reported as 0.
C21_UnitRoundTrip ==
  /\ getItemStock(bagStock, "Sack") = kgBooked
  /\ getItemStock(bagStock, "Widget") = 0
  /\ kgReported.itemName = "Widget" => kgReported.kg = 0
  /\ (kgReported.itemName = "Sack" /\ kgReported.after = nConversions) =>
        kgReported.kg = kgBooked

\* getItemStock reported the kilograms a product was created with although
\* the stored bags times 30 is not that whole number before Math.round
C21_Witness ==
  /\ nConversions = 1
  /\ kgBooked > 0
  /\ kgReported = [itemName |-> "Sack", kg |-> kgBooked, after |-> 1]
  /\ FMul(bagStock.value, KgPerBag) # FromInt(kgBooked)

-----------------------------------------------------------------------------
(* Properties of the ledger *)

ListOps == {"getAllCustomers", "getAllSuppliers", "getPartiesByType"}

EntrySet == {documents.value[i] : i \in DOMAIN documents.value}
              \cup {payments.value[i] : i \in DOMAIN payments.value}

OfKey(entries, key) ==
  SelectSeq(entries, LAMBDA e : PartyKey(e.name, e.phoneNumber) = key)

PermutationsOf(seq) ==
  { [i \in DOMAIN seq |-> seq[f[i]]] :
      f \in {g \in [DOMAIN seq -> DOMAIN seq] :
               \A a, b \in DOMAIN seq : g[a] = g[b] => a = b} }

Totals(list) ==
  { [id |-> list[i].id, totalBilled |-> list[i].totalBilled,
     totalPaid |-> list[i].totalPaid, balance |-> list[i].balance] : i \in DOMAIN list }

\* C5: a returned party list has exactly one record per distinct key
\* lowercase(name)-phone of the stored documents and payments, with
\* totalBilled and totalPaid the sums over that key and balance their
\* difference; and balance = totalBilled - totalPaid after every fold step.
C5_LedgerTotals ==
  /\ ledgerOut.op \in ListOps =>
       LET L == ledgerOut.list
       IN /\ \A i, j \in DOMAIN L : L[i].id = L[j].id => i = j
          /\ {L[i].id : i \in DOMAIN L} = {PartyKey(e.name, e.phoneNumber) : e \in EntrySet}
          /\ \A i \in DOMAIN L :
               /\ L[i].totalBilled = SumAmount(OfKey(documents.value, L[i].id))
               /\ L[i].totalPaid = SumAmount(OfKey(payments.value, L[i].id))
               /\ L[i].balance = L[i].totalBilled - L[i].totalPaid
  /\ \A i \in 0..Len(documents.value), j \in 0..Len(payments.value) :
       (j = 0 \/ i = Len(documents.value)) =>
          LET M == FoldParties(Stored(SubSeq(documents.value, 1, i)),
                               Stored(SubSeq(payments.value, 1, j)))
          IN \A k \in DOMAIN M : M[k].balance = M[k].totalBilled - M[k].totalPaid

\* a document of 1000 and a payment of 400 of one party were folded into one
\* record
C5_Witness ==
  /\ ledgerOut.op = "getAllCustomers"
  /\ Len(documents.value) = 1
  /\ Len(payments.value) = 1
  /\ Len(ledgerOut.list) = 1
  /\ ledgerOut.list[1].totalBilled = 1000
  /\ ledgerOut.list[1].totalPaid = 400
  /\ ledgerOut.list[1].balance = 600

\* C6: every reordering of the stored documents and of the stored payments
\* gives the same party keys with the same totalBilled, totalPaid, balance.
C6_BalanceCommutativity ==
  \A pd \in PermutationsOf(documents.value), pp \in PermutationsOf(payments.value) :
    LET d2 == [present |-> documents.present, value |-> pd]
        p2 == [present |-> payments.present, value |-> pp]
    IN /\ Totals(getPartiesByType(d2, p2)) = Totals(getPartiesByType(documents, payments))
       /\ Totals(getAllCustomers(d2, p2)) = Totals(getAllCustomers(documents, payments))
       /\ Totals(getAllSuppliers(d2, p2)) = Totals(getAllSuppliers(documents, payments))
       /\ ledgerOut.op = "getPartiesByType" => Totals(getPartiesByType(d2, p2)) = Totals(ledgerOut.list)
       /\ ledgerOut.op = "getAllCustomers" => Totals(getAllCustomers(d2, p2)) = Totals(ledgerOut.list)
       /\ ledgerOut.op = "getAllSuppliers" => Totals(getAllSuppliers(d2, p2)) = Totals(ledgerOut.list)

\* two different documents of one party are stored, so that there is an
\* order to change, and the parties were computed
C6_Witness ==
  /\ ledgerOut.op \in ListOps
  /\ Len(documents.value) = 2
  /\ documents.value[1].amount # documents.value[2].amount
  /\ PartyKey(documents.value[1].name, documents.value[1].phoneNumber)
       = PartyKey(documents.value[2].name, documents.value[2].phoneNumber)
  /\ Len(ledgerOut.list) = 1
  /\ ledgerOut.list[1].totalBilled = 1500

BalanceOps == {"getCustomerBalance", "getSupplierBalance", "getPartyBalance"}

\* the list the operation `op` returns for the stored collections d and p
ListOf(op, d, p) ==
  CASE op = "getAllCustomers" -> getAllCustomers(d, p)
    [] op = "getAllSuppliers" -> getAllSuppliers(d, p)
    [] OTHER -> getPartiesByType(d, p)

\* a missing collection read as an empty one
OrEmpty(stored) == IF stored.present THEN stored ELSE Stored(<<>>)

\* C22: in a returned party list a key found only in payments has
\* totalBilled = 0, totalPaid = the sum of its payments and balance =
\* -totalPaid; a key found only in documents has totalPaid = 0 and balance =
\* totalBilled; every such key has a record; a missing collection gives the
\* result an empty one gives, and with both missing the list is empty and a
\* balance is 0.
C22_OneSidedParties ==
  /\ ledgerOut.op \in ListOps =>
       LET L == ledgerOut.list
       IN /\ \A i \in DOMAIN L :
               /\ OfKey(documents.value, L[i].id) = <<>> =>
                     /\ L[i].totalBilled = 0
                     /\ L[i].totalPaid = SumAmount(OfKey(payments.value, L[i].id))
                     /\ L[i].balance = 0 - L[i].totalPaid
               /\ OfKey(payments.value, L[i].id) = <<>> =>
                     /\ L[i].totalPaid = 0
                     /\ L[i].totalBilled = SumAmount(OfKey(documents.value, L[i].id))
                     /\ L[i].balance = L[i].totalBilled
          /\ \A e \in EntrySet : \E i \in DOMAIN L : L[i].id = PartyKey(e.name, e.phoneNumber)
          /\ L = ListOf(ledgerOut.op, OrEmpty(documents), OrEmpty(payments))
          /\ (~documents.present /\ ~payments.present) => L = <<>>
  /\ (ledgerOut.op \in BalanceOps /\ ~documents.present /\ ~payments.present) =>
       ledgerOut.balance = 0

\* the documents are missing from storage and two payments of one party were
\* folded into a record that owes nothing and has paid 600
C22_Witness ==
  /\ ledgerOut.op = "getAllCustomers"
  /\ ~documents.present
  /\ Len(payments.value) = 2
  /\ Len(ledgerOut.list) = 1
  /\ ledgerOut.list[1].totalBilled = 0
  /\ ledgerOut.list[1].totalPaid = 600
  /\ ledgerOut.list[1].balance = 0 - 600

\* C7: entries fold into one party record exactly when their names are equal
\* ignoring case and their phone numbers are equal: the list has one record
\* per such (name, phone) class, holding that class's totals.
C7_MergeRule ==
  ledgerOut.op \in ListOps =>
    LET L == ledgerOut.list
        classes == {<<ToLowerCase(e.name), e.phoneNumber>> : e \in EntrySet}
    IN /\ Len(L) = Cardinality(classes)
       /\ \A c \in classes :
            \E i \in DOMAIN L :
              /\ ToLowerCase(L[i].name) = c[1]
              /\ L[i].phoneNumber = c[2]
              /\ L[i].totalBilled = SumAmount(FilterParty(documents.value, c[1], c[2]))
              /\ L[i].totalPaid = SumAmount(FilterParty(payments.value, c[1], c[2]))

LookupBalance(list, name, phoneNumber) ==
  LET hits == {i \in DOMAIN list : /\ ToLowerCase(list[i].name) = ToLowerCase(name)
                                   /\ list[i].phoneNumber = phoneNumber}
  IN IF hits = {} THEN 0 ELSE list[CHOOSE i \in hits : \A j \in hits : i <= j].balance

\* C8: a balance lookup equals the balance of the record the party list has
\* for that (name, phone), or 0 when it has none.
C8_BalanceEquivalence ==
  /\ ledgerOut.op = "getCustomerBalance" =>
       ledgerOut.balance = LookupBalance(getAllCustomers(documents, payments),
                                         ledgerOut.name, ledgerOut.phoneNumber)
  /\ ledgerOut.op = "getSupplierBalance" =>
       ledgerOut.balance = LookupBalance(getAllSuppliers(documents, payments),
                                         ledgerOut.name, ledgerOut.phoneNumber)
  /\ ledgerOut.op = "getPartyBalance" =>
       ledgerOut.balance = LookupBalance(getPartiesByType(documents, payments),
                                         ledgerOut.name, ledgerOut.phoneNumber)

\* C9: no record of a returned party list is followed by one with a later
\* lastTransactionDate.
C9_SortedDescending ==
  ledgerOut.op \in ListOps =>
    \A i, j \in DOMAIN ledgerOut.list :
      i < j => ledgerOut.list[i].lastTransactionDate >= ledgerOut.list[j].lastTransactionDate

-----------------------------------------------------------------------------
\* the ids of the invoices in the stored collection
StoredInvoiceIds == {salesInvoices.value[i].id : i \in DOMAIN salesInvoices.value}

\* C30: an invoice that deleteTransaction has removed from the stored
\* sales-invoices collection is never in that collection again, whatever
\* createInvoice writes later, so the balance getCustomerBalance computes from
\* the collection does not include its total.
C30_DeletedStayDeleted == deletedInvoices \cap StoredInvoiceIds = {}

====
